---- MODULE Spec2Model ----
(***************************************************************************)
(* WooCommerce -> Supabase synchronisation scripts.                        *)
(*                                                                         *)
(* The repository holds three sync scripts and one analytics script:       *)
(*   "part_002"  src/unnamed/part_002  fetchAllPages / upsertChunks / main  *)
(*   "sync_js"   src/sync.js           fetchWooCommerceData /               *)
(*                                     upsertSupabaseData / main            *)
(*   "part_001"  src/unnamed/part_001  fetchOrders / syncData               *)
(* A run executes exactly one script; `variant` says which.  Every action   *)
(* below is one stretch of a script between two suspension points (await). *)
(* The WooCommerce API and the Supabase store are the environment: what     *)
(* they answer is drawn with \E in the *_response actions.                  *)
(***************************************************************************)
EXTENDS Integers, Sequences, FiniteSets, TLC

(***************************************************************************)
(* Model bounds.  The sizes the scripts use (100 records per page, chunks   *)
(* of 500, a limit of 500 orders) are scaled down to sizes TLC can          *)
(* enumerate; the scripts only ever compare lengths against them.          *)
(***************************************************************************)
\* the most records of one entity the source holds
MaxRecords == 5
\* per_page: the most records the source puts on one page
\* (PER_PAGE = 100, part_002:10, sync.js:15, part_001:14)
PER_PAGE == 2
\* records per upsert request (CHUNK_SIZE = 500, part_002:11)
CHUNK_SIZE == 2
\* recordLimit of the order extraction (500, sync.js:138)
ORDER_LIMIT == 3
\* the top products syncData keeps (slice(0, 50), part_001:72)
TOP_PRODUCTS == 1

VARIABLES
  variant,     \* which script runs
  env,         \* the environment variables that are set and non-empty
  pc,          \* where the script is
  phase,       \* "orders" or "products"
  page,        \* fetchAllPages / fetchWooCommerceData / fetchOrders: page
  all,         \* the accumulator (all / allData / allOrders)
  records,     \* the formatted records handed to the loader
  i,           \* upsertChunks: the loop index
  inflight,    \* requests issued and not yet answered
  tables,      \* the Supabase store: table name -> set of rows
  exitCode,    \* -1 while the process runs
  log,         \* what console.error has written
  nreq,        \* history: number of requests issued in the run
  pagesReq,    \* history: page numbers requested by the current extraction
  served,      \* history: responses received by the current extraction
  writesReq,   \* history: start index of every chunk of the current load
  lastWritten, \* history: table -> key -> last record the store accepted
  failedAt,    \* history: the first request that got a failure response
  formatIn,    \* history: the raw records handed to the formatter
  done,        \* history: the extractions and loads that have returned
  analytics,   \* part_000: what fetchOrders returns
  source,      \* the records the shop holds, when they are fixed for the run
  run,         \* 1 in the first run of the script, 2 in the run after it
  firstRun     \* history: the store as the first run left it

vars == <<variant, env, pc, phase, page, all, records, i, inflight, tables,
          exitCode, log, nreq, pagesReq, served, writesReq, lastWritten,
          failedAt, formatIn, done, analytics, source, run,
          firstRun>>

EnvVars == {"SUPABASE_URL", "SUPABASE_SERVICE_ROLE_KEY", "WOOCOMMERCE_URL",
            "WOOCOMMERCE_CONSUMER_KEY", "WOOCOMMERCE_CONSUMER_SECRET"}

Variants == {"part_002", "sync_js", "part_001"}

Min(a, b) == IF a < b THEN a ELSE b

(***************************************************************************)
(* JavaScript values.                                                      *)
(***************************************************************************)
\* a property that is absent reads as undefined
Has(r, f) == f \in DOMAIN r

\* `r.f || dflt` on a string property: undefined and "" are falsy
OrDefault(r, f, dflt) == IF Has(r, f) /\ r[f] # "" THEN r[f] ELSE dflt

\* `r.f ?? dflt`
Coalesce(r, f, dflt) == IF Has(r, f) THEN r[f] ELSE dflt

\* numbers are held in hundredths; NaN is a number of its own
NaN == [nan |-> TRUE, val |-> 0]

Num(n) == [nan |-> FALSE, val |-> n]

\* the decimal strings of the sample records and what parseFloat reads
ParseFloat(s) ==
  CASE s = "10.50" -> Num(1050)
    [] s = "20.00" -> Num(2000)
    [] s = "6.00" -> Num(600)
    [] s = "3.00" -> Num(300)
    [] s = "0" -> Num(0)
    [] OTHER -> NaN

\* `x || 0` on a number: NaN and 0 are falsy
OrZero(x) == IF x.nan \/ x.val = 0 THEN Num(0) ELSE x

\* String(id) / id.toString()
String(n) == ToString(n)

\* `${a} ${b}`.trim() for strings without blanks of their own
JoinTrim(a, b) ==
  IF a = "" THEN b ELSE IF b = "" THEN a ELSE a \o " " \o b

\* records.slice(a, b)
Slice(s, a, b) == SubSeq(s, a + 1, Min(b, Len(s)))

(***************************************************************************)
(* Sample source records.                                                  *)
(***************************************************************************)
OrderA ==
  [id |-> 1, status |-> "completed", total |-> "10.50",
   date_created_gmt |-> "2024-01-01T10:00:00",
   date_created |-> "2024-01-01T11:00:00",
   billing |-> [first_name |-> "Ann", last_name |-> "Lee", email |-> "ann@x.io"],
   payment_method_title |-> "Card",
   line_items |-> <<[product_id |-> 10, name |-> "Soap", price |-> "3.00",
                     total |-> "6.00", quantity |-> 2]>>]

\* same id as OrderA, not in the allow-list, names/date/payment absent
OrderB ==
  [id |-> 1, status |-> "cancelled", total |-> "abc",
   date_created |-> "2024-01-02T09:00:00",
   billing |-> [email |-> "bob@x.io"],
   line_items |-> <<[product_id |-> 11, name |-> "Oil", price |-> "10.50",
                     total |-> "10.50", quantity |-> 1]>>]

\* every optional field absent
OrderC ==
  [id |-> 2, status |-> "refunded",
   line_items |-> <<[product_id |-> 11, name |-> "Oil", price |-> "10.50",
                     total |-> "10.50", quantity |-> 1]>>]

SampleOrders == {OrderA, OrderB, OrderC}

\* a complete order of another customer
OrderD ==
  [id |-> 3, status |-> "processing", total |-> "20.00",
   date_created_gmt |-> "2024-01-03T08:00:00",
   date_created |-> "2024-01-03T09:00:00",
   billing |-> [first_name |-> "Dan", last_name |-> "Roe", email |-> "dan@x.io"],
   payment_method_title |-> "Cash",
   line_items |-> <<[product_id |-> 10, name |-> "Soap", price |-> "3.00",
                     total |-> "3.00", quantity |-> 1]>>]

ProductA ==
  [id |-> 10, name |-> "Soap", categories |-> <<[name |-> "Bath"]>>,
   price |-> "3.00", stock_quantity |-> 5, total_sales |-> 7]

\* same id as ProductA, every optional field absent
ProductB == [id |-> 10, name |-> "Soap bar", total_sales |-> 9]

SampleProducts == {ProductA, ProductB}

Samples(ph) == IF ph = "orders" THEN SampleOrders ELSE SampleProducts

\* the wall clock readings `new Date().toISOString()` can give
Clock == {"2024-06-01T00:00:00.000Z", "2024-06-01T00:00:01.000Z"}

(***************************************************************************)
(* Formatting: src/unnamed/part_002.                                       *)
(***************************************************************************)
\* `o.billing?.first_name || ''`
BillingName(o, f) == IF Has(o, "billing") THEN OrDefault(o.billing, f, "") ELSE ""

CustomerName(o) ==
  LET n == JoinTrim(BillingName(o, "first_name"), BillingName(o, "last_name"))
  IN  IF n = "" THEN "Client inconnu" ELSE n

\* mutant of CreatedAt: the time of the run, whatever the order says
CreatedAt_now(o, now) == now

\* `o.date_created_gmt ? o.date_created_gmt + 'Z' : new Date().toISOString()`
CreatedAt(o, now) ==
  IF Has(o, "date_created_gmt") /\ o.date_created_gmt # ""
  THEN o.date_created_gmt \o "Z" ELSE now

formatOrderForSupabase(o, now) ==
  [order_id |-> String(o.id),
   created_at |-> CreatedAt(o, now),
   customer_name |-> CustomerName(o),
   total |-> OrZero(ParseFloat(OrDefault(o, "total", "0"))),
   payment_method |-> OrDefault(o, "payment_method_title", "N/A"),
   status |-> OrDefault(o, "status", "unknown")]

formatProductForSupabase(p) ==
  [product_id |-> String(p.id),
   name |-> OrDefault(p, "name", "N/A"),
   category |-> IF Has(p, "categories") /\ Len(p.categories) > 0
                THEN p.categories[1].name ELSE "Non classe",
   price |-> OrZero(ParseFloat(OrDefault(p, "price", "0"))),
   stock |-> Coalesce(p, "stock_quantity", 0),
   total_sales |-> Coalesce(p, "total_sales", 0)]

(***************************************************************************)
(* Formatting: src/sync.js.  A property read on undefined throws a         *)
(* TypeError; *Throws says when the formatter does.                        *)
(***************************************************************************)
formatOrderThrows(o) == ~Has(o, "billing")

formatOrder(o) ==
  [order_id |-> String(o.id),
   created_at |-> (IF Has(o, "date_created_gmt") THEN o.date_created_gmt
                   ELSE "undefined") \o "Z",
   customer_name |-> CustomerName(o),
   total |-> ParseFloat(OrDefault(o, "total", "0")),
   payment_method |-> OrDefault(o, "payment_method_title", "N/A"),
   status |-> Coalesce(o, "status", "undefined")]

formatProductThrows(p) == ~Has(p, "categories")

formatProduct(p) ==
  [product_id |-> String(p.id),
   name |-> Coalesce(p, "name", "undefined"),
   category |-> IF Len(p.categories) > 0 THEN p.categories[1].name
                ELSE "Non classe",
   price |-> ParseFloat(OrDefault(p, "price", "0")),
   stock |-> Coalesce(p, "stock_quantity", 0),
   total_sales |-> Coalesce(p, "total_sales", "undefined")]

allowedStatuses == {"completed", "processing", "refunded"}

\* mutant of FilterAllowed: every order passes
FilterAllowed_all(s) == s

\* rawOrders.filter(o => allowedStatuses.includes(o.status))
FilterAllowed(s) == SelectSeq(s, LAMBDA o : Coalesce(o, "status", "undefined") \in allowedStatuses)

(***************************************************************************)
(* The Supabase store.  A POST with `Prefer: resolution=merge-duplicates`  *)
(* (or upsert with onConflict) replaces the row that has the record's      *)
(* conflict key, or inserts the record.                                    *)
(***************************************************************************)
Tables == {"sales", "products"}

TableOf(ph) == IF ph = "orders" THEN "sales" ELSE "products"

Key(t, r) == IF t = "sales" THEN r.order_id ELSE r.product_id

\* mutant of MergeOne: the record is inserted, whatever the table holds
MergeOne_insert(t, rows, r) == rows \cup {r}

MergeOne(t, rows, r) == {x \in rows : Key(t, x) # Key(t, r)} \cup {r}

RECURSIVE MergeDuplicates(_, _, _)
MergeDuplicates(t, rows, payload) ==
  IF payload = <<>> THEN rows
  ELSE MergeDuplicates(t, MergeOne(t, rows, Head(payload)), Tail(payload))

RECURSIVE Remember(_, _, _)
\* history: the last record accepted for each key
Remember(t, f, payload) ==
  IF payload = <<>> THEN f
  ELSE LET r == Head(payload)
           g == [k \in DOMAIN f \cup {Key(t, r)} |->
                   IF k = Key(t, r) THEN r ELSE f[k]]
       IN  Remember(t, g, Tail(payload))

(***************************************************************************)
(* The WooCommerce API.                                                    *)
(***************************************************************************)
RECURSIVE SeqsUpTo(_, _)
SeqsUpTo(S, n) ==
  IF n = 0 THEN {<<>>}
  ELSE LET shorter == SeqsUpTo(S, n - 1)
       IN  shorter \cup {Append(s, x) : s \in {t \in shorter : Len(t) = n - 1}, x \in S}

RECURSIVE Concat(_)
\* the records of a sequence of responses, in order
Concat(resps) ==
  IF resps = <<>> THEN <<>> ELSE Head(resps).data \o Concat(Tail(resps))

\* the shop's records are not fixed: every page is the shop's choice
Unfixed == [kind |-> "any"]

\* a JSON array of at most PER_PAGE records, of the records the source has
\* not served yet; when none is left the page is empty.  A shop whose
\* records are fixed serves them in order, PER_PAGE to the page.
Pages(ph, before) ==
  IF source = Unfixed
  THEN SeqsUpTo(Samples(ph), Min(PER_PAGE, MaxRecords - Len(Concat(before))))
  ELSE LET sent == Len(Concat(before))
       IN  {SubSeq(source[ph], sent + 1, Min(sent + PER_PAGE, Len(source[ph])))}

\* what a page request can be answered with: a status, and a body that is
\* a JSON array, a JSON object, or no JSON at all (a shop whose records are
\* fixed answers 200 with an array, or with a body cut short)
PageResponses(ph, before) ==
  {[ok |-> TRUE, status |-> 200, body |-> "array", data |-> d] : d \in Pages(ph, before)}
  \cup {[ok |-> TRUE, status |-> 200, body |-> b, data |-> <<>>] :
          b \in IF source = Unfixed THEN {"object", "invalid"} ELSE {"invalid"}}
  \cup {[ok |-> FALSE, status |-> 500, body |-> b, data |-> <<>>] :
          b \in {"array", "object", "invalid"}}

(***************************************************************************)
(* Errors, as console.error writes them.                                   *)
(***************************************************************************)
ErrConfig(name) == [kind |-> "config", name |-> name]

ErrPage(ph, p, status) == [kind |-> "page", entity |-> ph, page |-> p, status |-> status]

ErrStore(t) == [kind |-> "store", table |-> t]

\* response.json() on a body that is no JSON
ErrJson == [kind |-> "SyntaxError"]

\* a TypeError: a spread of something not iterable ("body"), a property
\* read on undefined ("format"), a URL that is not absolute ("url")
ErrType(where) == [kind |-> "TypeError", where |-> where]

NoFailure == [kind |-> "none"]

\* the value of a function that has not returned, or returned nothing
Undefined == [kind |-> "undefined"]

(***************************************************************************)
(* Initial state: any script, any subset of the environment variables set, *)
(* a store that holds a sale of an earlier run (order 1) and nothing else.  *)
(***************************************************************************)
StaleSale == formatOrderForSupabase(OrderB, "2024-05-01T00:00:00.000Z")

Init ==
  /\ variant \in Variants
  /\ env \in SUBSET EnvVars
  /\ pc = "start"
  /\ phase = "orders"
  /\ page = 1
  /\ all = <<>>
  /\ records = <<>>
  /\ i = 0
  /\ inflight = {}
  /\ tables = [t \in Tables |-> IF t = "sales" THEN {StaleSale} ELSE {}]
  /\ exitCode = -1
  /\ log = <<>>
  /\ nreq = 0
  /\ pagesReq = <<>>
  /\ served = <<>>
  /\ writesReq = <<>>
  /\ lastWritten = [t \in Tables |-> <<>>]
  /\ failedAt = NoFailure
  /\ formatIn = <<>>
  /\ done = {}
  /\ analytics = Undefined
  /\ source = Unfixed
  /\ run = 1
  /\ firstRun = tables

(***************************************************************************)
(* Steps shared by the scripts.                                            *)
(***************************************************************************)
\* console.error(errs); process.exit(code)
Exit(code, errs) ==
  /\ pc' = "exited"
  /\ exitCode' = code
  /\ log' = log \o errs
  /\ UNCHANGED <<phase, page, all, records, i, pagesReq, served, writesReq>>

\* history: the first request that was answered with a failure
NoteFailure(kind, n) ==
  failedAt' = IF failedAt = NoFailure
              THEN [kind |-> kind, phase |-> phase, n |-> n] ELSE failedAt

\* history: the extractor has returned its result
Extracted == done' = done \cup {<<"extracted", phase>>}

\* history: the loader has returned
Loaded == done' = done \cup {<<"loaded", TableOf(phase)>>}

\* mutant of EndOfData: a page that is not full ends the pagination
EndOfData_shortPage(resp) == resp.body # "array" \/ Len(resp.data) < PER_PAGE

\* the end of pagination of fetchAllPages: no array, or an empty one
EndOfData(resp) == resp.body # "array" \/ Len(resp.data) = 0

\* mutant of AwaitPage: the continuation of the fetch is never resumed
AwaitPage_lost == "lost"

\* the script is suspended in `await fetch(url)` until the response arrives
AwaitPage == "awaitPage"

\* mutant of AwaitWrite: the script goes on without waiting for the answer
AwaitWrite_goOn == "upsert"

\* the script is suspended in the `await` of the write until the store answers
AwaitWrite == "awaitWrite"

\* fetch(url) of page `page` of the current endpoint
RequestPage ==
  /\ inflight' = inflight \cup {[kind |-> "page", entity |-> phase, page |-> page, n |-> nreq + 1]}
  /\ nreq' = nreq + 1
  /\ pagesReq' = Append(pagesReq, page)
  /\ pc' = AwaitPage
  /\ UNCHANGED <<variant, env, analytics, source, run, firstRun, phase, page, all, records, i, tables, exitCode,
                 log, served, writesReq, lastWritten, failedAt, formatIn, done>>

\* the POST of `payload`, the records from index `from` on, to the table
RequestWrite(payload, from) ==
  /\ inflight' = inflight \cup {[kind |-> "write", table |-> TableOf(phase),
                                  payload |-> payload, n |-> nreq + 1]}
  /\ nreq' = nreq + 1
  /\ writesReq' = Append(writesReq, from)
  /\ pc' = AwaitWrite
  /\ UNCHANGED <<variant, env, analytics, source, run, firstRun, phase, page, all, records, i, tables, exitCode,
                 log, pagesReq, served, lastWritten, failedAt, formatIn, done>>

\* the store applies an accepted write before it answers
Commit(req) ==
  /\ tables' = [tables EXCEPT ![req.table] = MergeDuplicates(req.table, @, req.payload)]
  /\ lastWritten' = [lastWritten EXCEPT ![req.table] = Remember(req.table, @, req.payload)]

\* a fresh call of the extractor on endpoint ph (all = [], page = 1); what
\* the phase before it held is not read again
StartExtraction(ph) ==
  /\ pc' = "fetch"
  /\ phase' = ph
  /\ page' = 1
  /\ all' = <<>>
  /\ pagesReq' = <<>>
  /\ served' = <<>>
  /\ records' = <<>>
  /\ i' = 0
  /\ writesReq' = <<>>
  /\ formatIn' = <<>>
  /\ UNCHANGED <<exitCode, log>>

\* the loader is entered with the formatted records
StartLoad(input, formatted) ==
  /\ pc' = "upsert"
  /\ formatIn' = input
  /\ records' = formatted
  /\ i' = 0
  /\ writesReq' = <<>>
  /\ pagesReq' = <<>>
  /\ served' = <<>>
  /\ UNCHANGED <<phase, page, exitCode, log>>

EnvOrder == <<"SUPABASE_URL", "SUPABASE_SERVICE_ROLE_KEY", "WOOCOMMERCE_URL",
              "WOOCOMMERCE_CONSUMER_KEY", "WOOCOMMERCE_CONSUMER_SECRET">>

(***************************************************************************)
(* src/unnamed/part_002                                                    *)
(***************************************************************************)
\* getEnvOrThrow: the first variable of main's five that is not set
getEnvOrThrow ==
  LET missing == {k \in 1..Len(EnvOrder) : EnvOrder[k] \notin env}
  IN  IF missing = {} THEN <<>>
      ELSE <<ErrConfig(EnvOrder[CHOOSE k \in missing : \A m \in missing : k <= m])>>

\* mutant of main_catch: the error is logged and the process ends by itself
main_catch_noExit(err) == Exit(0, <<err>>) /\ UNCHANGED <<formatIn, done>>

\* the catch of main: console.error, process.exit(1)
main_catch(err) == Exit(1, <<err>>) /\ UNCHANGED <<formatIn, done>>

\* main up to the first page request
main_start ==
  /\ variant = "part_002"
  /\ pc = "start"
  /\ IF getEnvOrThrow # <<>>
     THEN main_catch(getEnvOrThrow[1])
     ELSE StartExtraction("orders") /\ UNCHANGED done
  /\ UNCHANGED <<variant, env, analytics, source, run, firstRun, inflight, tables, nreq, lastWritten, failedAt>>

fetchAllPages_request ==
  /\ variant = "part_002"
  /\ pc = "fetch"
  /\ RequestPage

\* fetchAllPages from the response to the sleep before the next page, the
\* return, or the throw
fetchAllPages_response ==
  /\ variant = "part_002"
  /\ pc = "awaitPage"
  /\ \E req \in inflight, resp \in PageResponses(phase, served) :
       /\ req.kind = "page"
       /\ inflight' = inflight \ {req}
       /\ IF ~resp.ok
          THEN /\ main_catch(ErrPage(phase, page, resp.status))
               /\ NoteFailure("page", page)
          ELSE IF resp.body = "invalid"
          THEN /\ main_catch(ErrJson)
               /\ UNCHANGED failedAt
          ELSE /\ served' = Append(served, resp)
               /\ UNCHANGED <<phase, records, i, exitCode, log, pagesReq,
                              writesReq, formatIn, failedAt>>
               /\ IF EndOfData(resp)
                  THEN /\ pc' = "transform"
                       /\ Extracted
                       /\ UNCHANGED <<page, all>>
                  ELSE /\ all' = all \o resp.data
                       /\ page' = page + 1
                       /\ pc' = "fetch"
                       /\ UNCHANGED done
  /\ UNCHANGED <<variant, env, analytics, source, run, firstRun, tables, nreq, lastWritten>>

\* what main does once a load is complete or skipped: the products, or
\* process.exit(0)
main_next ==
  IF phase = "orders"
  THEN StartExtraction("products")
  ELSE Exit(0, <<>>) /\ UNCHANGED formatIn

\* main from the return of fetchAllPages to the first chunk of the load
\* (the map runs without suspension: one clock reading for its records)
main_transform ==
  /\ variant = "part_002"
  /\ pc = "transform"
  /\ \E now \in Clock :
       LET formatted == IF phase = "orders"
                        THEN [k \in 1..Len(all) |-> formatOrderForSupabase(all[k], now)]
                        ELSE [k \in 1..Len(all) |-> formatProductForSupabase(all[k])]
       IN  IF Len(formatted) > 0
           THEN StartLoad(all, formatted) /\ all' = <<>> /\ UNCHANGED done
           ELSE main_next /\ Loaded
  /\ UNCHANGED <<variant, env, analytics, source, run, firstRun, inflight, tables, nreq, lastWritten, failedAt>>

upsertChunks_request ==
  /\ variant = "part_002"
  /\ pc = "upsert"
  /\ RequestWrite(Slice(records, i, i + CHUNK_SIZE), i)

\* mutant of upsertChunks_throw: the failure is noted and the loop goes on
\* with the chunk after
upsertChunks_throw_goOn(req) ==
  /\ NoteFailure("write", Len(writesReq))
  /\ log' = Append(log, ErrStore(req.table))
  /\ IF i + CHUNK_SIZE < Len(records)
     THEN /\ i' = i + CHUNK_SIZE
          /\ pc' = "upsert"
          /\ UNCHANGED exitCode
     ELSE /\ pc' = "exited"
          /\ exitCode' = 1
          /\ UNCHANGED i
  /\ UNCHANGED <<phase, page, all, records, pagesReq, served, writesReq,
                 formatIn, done, tables, lastWritten>>

\* `if (!res.ok) throw`: the error leaves the loop and reaches main's catch
upsertChunks_throw(req) ==
  /\ main_catch(ErrStore(req.table))
  /\ NoteFailure("write", Len(writesReq))
  /\ UNCHANGED <<tables, lastWritten>>

\* upsertChunks from the response to the next chunk, the return or the throw
upsertChunks_response ==
  /\ variant = "part_002"
  /\ pc = "awaitWrite"
  /\ \E req \in inflight, ok \in BOOLEAN :
       /\ req.kind = "write"
       /\ inflight' = inflight \ {req}
       /\ IF ~ok
          THEN upsertChunks_throw(req)
          ELSE /\ Commit(req)
               /\ UNCHANGED failedAt
               /\ IF i + CHUNK_SIZE < Len(records)
                  THEN /\ i' = i + CHUNK_SIZE
                       /\ pc' = "upsert"
                       /\ UNCHANGED <<phase, page, all, records, exitCode, log,
                                      pagesReq, served, writesReq, formatIn, done>>
                  ELSE main_next /\ Loaded
  /\ UNCHANGED <<variant, env, analytics, source, run, firstRun, nreq>>

(***************************************************************************)
(* src/sync.js                                                             *)
(***************************************************************************)
\* the catch of main: console.error, process.exit(1)
sync_main_catch(err) == Exit(1, <<err>>) /\ UNCHANGED done

\* the validation of the secrets at module level, then main up to the
\* first page request
sync_main_start ==
  /\ variant = "sync_js"
  /\ pc = "start"
  /\ IF ~(EnvVars \subseteq env)
     THEN Exit(1, <<ErrConfig("secrets")>>) /\ UNCHANGED <<formatIn, done>>
     ELSE StartExtraction("orders") /\ UNCHANGED done
  /\ UNCHANGED <<variant, env, analytics, source, run, firstRun, inflight, tables, nreq, lastWritten, failedAt>>

\* mutant of recordLimit: no limit for either endpoint
recordLimit_none == IF phase = "orders" THEN 0 ELSE 0

\* the recordLimit main passes: 500 for /orders, none (null) for /products
recordLimit == IF phase = "orders" THEN ORDER_LIMIT ELSE 0

fetchWooCommerceData_request ==
  /\ variant = "sync_js"
  /\ pc = "fetch"
  /\ RequestPage

\* fetchWooCommerceData from the response to the sleep before the next
\* page, the return, or the throw
fetchWooCommerceData_response ==
  /\ variant = "sync_js"
  /\ pc = "awaitPage"
  /\ \E req \in inflight, resp \in PageResponses(phase, served) :
       /\ req.kind = "page"
       /\ inflight' = inflight \ {req}
       /\ IF ~resp.ok
          THEN /\ sync_main_catch(ErrPage(phase, page, resp.status))
               /\ NoteFailure("page", page)
               /\ UNCHANGED formatIn
          ELSE IF resp.body = "invalid"
          THEN /\ sync_main_catch(ErrJson)
               /\ UNCHANGED <<failedAt, formatIn>>
          ELSE IF resp.body = "object"
          \* pageData.length is undefined, and push(...pageData) throws
          THEN /\ sync_main_catch(ErrType("body"))
               /\ UNCHANGED <<failedAt, formatIn>>
          ELSE /\ served' = Append(served, resp)
               /\ UNCHANGED <<phase, records, i, exitCode, log, pagesReq,
                              writesReq, formatIn, failedAt>>
               /\ IF Len(resp.data) = 0
                  THEN /\ pc' = "transform"
                       /\ Extracted
                       /\ UNCHANGED <<page, all>>
                  ELSE IF recordLimit # 0 /\ Len(all \o resp.data) >= recordLimit
                  THEN /\ all' = Slice(all \o resp.data, 0, recordLimit)
                       /\ pc' = "transform"
                       /\ Extracted
                       /\ UNCHANGED page
                  ELSE /\ all' = all \o resp.data
                       /\ page' = page + 1
                       /\ pc' = "fetch"
                       /\ UNCHANGED done
  /\ UNCHANGED <<variant, env, analytics, source, run, firstRun, tables, nreq, lastWritten>>

\* what main does once an upsert has returned: the products, or the end of
\* main, after which the process ends with code 0
sync_main_next ==
  IF phase = "orders"
  THEN StartExtraction("products")
  ELSE Exit(0, <<>>) /\ UNCHANGED formatIn

\* main from the return of fetchWooCommerceData to the write request
sync_main_transform ==
  /\ variant = "sync_js"
  /\ pc = "transform"
  /\ LET input == IF phase = "orders" THEN FilterAllowed(all) ELSE all
         throws == \E k \in 1..Len(input) :
                     IF phase = "orders" THEN formatOrderThrows(input[k])
                     ELSE formatProductThrows(input[k])
         formatted == IF phase = "orders" THEN [k \in 1..Len(input) |-> formatOrder(input[k])]
                      ELSE [k \in 1..Len(input) |-> formatProduct(input[k])]
     IN  IF throws
         THEN sync_main_catch(ErrType("format")) /\ formatIn' = input
         ELSE IF Len(formatted) > 0
         THEN StartLoad(input, formatted) /\ UNCHANGED <<all, done>>
         ELSE sync_main_next /\ Loaded
  /\ UNCHANGED <<variant, env, analytics, source, run, firstRun, inflight, tables, nreq, lastWritten, failedAt>>

upsertSupabaseData_request ==
  /\ variant = "sync_js"
  /\ pc = "upsert"
  /\ RequestWrite(records, 0)

upsertSupabaseData_response ==
  /\ variant = "sync_js"
  /\ pc = "awaitWrite"
  /\ \E req \in inflight, ok \in BOOLEAN :
       /\ req.kind = "write"
       /\ inflight' = inflight \ {req}
       /\ IF ~ok
          THEN /\ sync_main_catch(ErrStore(req.table))
               /\ NoteFailure("write", Len(writesReq))
               /\ UNCHANGED <<tables, lastWritten, formatIn>>
          ELSE /\ Commit(req)
               /\ sync_main_next
               /\ Loaded
               /\ UNCHANGED failedAt
  /\ UNCHANGED <<variant, env, analytics, source, run, firstRun, nreq>>

(***************************************************************************)
(* src/unnamed/part_001                                                    *)
(***************************************************************************)
\* a property that is undefined, in a string concatenation
Str(r, f) == Coalesce(r, f, "undefined")

NumAdd(a, b) == IF a.nan \/ b.nan THEN NaN ELSE Num(a.val + b.val)

\* order.billing.first_name throws when the order has no billing
salesDataThrows(order) == ~Has(order, "billing")

\* the arrow function of orders.map in syncData
salesData(order) ==
  [order_id |-> String(order.id),
   date |-> Str(order, "date_created"),
   customer_name |-> Str(order.billing, "first_name") \o " " \o Str(order.billing, "last_name"),
   total |-> IF Has(order, "total") THEN ParseFloat(order.total) ELSE NaN,
   payment_method |-> Str(order, "payment_method_title"),
   status |-> Str(order, "status")]

RECURSIVE LineItems(_)
\* the line items of the orders, in the order of the two forEach loops
LineItems(orders) ==
  IF orders = <<>> THEN <<>>
  ELSE Head(orders).line_items \o LineItems(Tail(orders))

RECURSIVE productSales(_)
\* the productSales object after the loops: product id -> entry
productSales(items) ==
  IF items = <<>> THEN <<>>
  ELSE LET before == productSales(SubSeq(items, 1, Len(items) - 1))
           item == items[Len(items)]
           id == item.product_id
           entry == IF id \in DOMAIN before THEN before[id]
                    ELSE [product_id |-> String(id),
                          name |-> item.name,
                          category |-> Coalesce(item, "category", "null"),
                          price |-> ParseFloat(item.price),
                          stock |-> "null",
                          total_sales |-> Num(0)]
       IN  [k \in DOMAIN before \cup {id} |->
              IF k = id
              THEN [entry EXCEPT !.total_sales = NumAdd(@, ParseFloat(item.total))]
              ELSE before[k]]

RECURSIVE ObjectValues(_)
\* Object.values of an object whose keys are integers: ascending key order
ObjectValues(f) ==
  IF DOMAIN f = {} THEN <<>>
  ELSE LET k == CHOOSE x \in DOMAIN f : \A y \in DOMAIN f : x <= y
       IN  <<f[k]>> \o ObjectValues([x \in DOMAIN f \ {k} |-> f[x]])

\* the place of entry e in a sequence sorted by (a, b) => b.total_sales -
\* a.total_sales: behind every entry that does not sell less (stable)
InsertDesc(sorted, e) ==
  LET ahead == {k \in 1..Len(sorted) : sorted[k].total_sales.val >= e.total_sales.val}
      n == Cardinality(ahead)
  IN  SubSeq(sorted, 1, n) \o <<e>> \o SubSeq(sorted, n + 1, Len(sorted))

RECURSIVE SortDesc(_)
SortDesc(s) ==
  IF s = <<>> THEN <<>>
  ELSE InsertDesc(SortDesc(SubSeq(s, 1, Len(s) - 1)), s[Len(s)])

topProducts(orders) ==
  Slice(SortDesc(ObjectValues(productSales(LineItems(orders)))), 0, TOP_PRODUCTS)

\* createClient refuses an undefined URL or key
createClientThrows ==
  "SUPABASE_URL" \notin env \/ "SUPABASE_SERVICE_ROLE_KEY" \notin env

\* fetch refuses `undefined/wp-json/...`, which is no absolute URL
fetchThrows == "WOOCOMMERCE_URL" \notin env

\* the .catch of syncData(): console.error, process.exit(1)
syncData_catch(err) == Exit(1, <<err>>) /\ UNCHANGED done

\* the module up to the first page request of fetchOrders
syncData_start ==
  /\ variant = "part_001"
  /\ pc = "start"
  /\ IF createClientThrows
     THEN Exit(1, <<ErrConfig("supabase")>>) /\ UNCHANGED <<formatIn, done>>
     ELSE IF fetchThrows
     THEN syncData_catch(ErrType("url")) /\ UNCHANGED formatIn
     ELSE StartExtraction("orders") /\ UNCHANGED done
  /\ UNCHANGED <<variant, env, analytics, source, run, firstRun, inflight, tables, nreq, lastWritten, failedAt>>

\* mutant of MorePages: any page that is not empty is followed by the next
MorePages_nonEmpty(orders) == Len(orders) > 0

\* `if (orders.length === 100)`: a full page is followed by the next one
MorePages(orders) == Len(orders) = PER_PAGE

fetchOrders_request ==
  /\ variant = "part_001"
  /\ pc = "fetch"
  /\ RequestPage

\* fetchOrders from the response to the recursive call, the return or the
\* throw; response.ok is not read
fetchOrders_response ==
  /\ variant = "part_001"
  /\ pc = "awaitPage"
  /\ \E req \in inflight, resp \in PageResponses(phase, served) :
       /\ req.kind = "page"
       /\ inflight' = inflight \ {req}
       /\ IF resp.ok THEN UNCHANGED failedAt ELSE NoteFailure("page", page)
       /\ IF resp.body = "invalid"
          THEN syncData_catch(ErrJson) /\ UNCHANGED formatIn
          ELSE IF resp.body = "object"
          \* [...allOrders, ...orders] throws: orders is not iterable
          THEN syncData_catch(ErrType("body")) /\ UNCHANGED formatIn
          ELSE /\ served' = Append(served, resp)
               /\ all' = all \o resp.data
               /\ UNCHANGED <<phase, records, i, exitCode, log, pagesReq,
                              writesReq, formatIn>>
               /\ IF MorePages(resp.data)
                  THEN /\ page' = page + 1
                       /\ pc' = "fetch"
                       /\ UNCHANGED done
                  ELSE /\ pc' = "transform"
                       /\ Extracted
                       /\ UNCHANGED page
  /\ UNCHANGED <<variant, env, analytics, source, run, firstRun, tables, nreq, lastWritten>>

\* syncData from the return of fetchOrders to the upsert of the sales
syncData_transform ==
  /\ variant = "part_001"
  /\ pc = "transform"
  /\ IF \E k \in 1..Len(all) : salesDataThrows(all[k])
     THEN syncData_catch(ErrType("format")) /\ formatIn' = all
     ELSE StartLoad(all, [k \in 1..Len(all) |-> salesData(all[k])]) /\ UNCHANGED <<all, done>>
  /\ UNCHANGED <<variant, env, analytics, source, run, firstRun, inflight, tables, nreq, lastWritten, failedAt>>

\* supabase.from(table).upsert(records, { onConflict })
syncData_upsert_request ==
  /\ variant = "part_001"
  /\ pc = "upsert"
  /\ RequestWrite(records, 0)

\* syncData from the answer to an upsert to the next upsert or the end
syncData_upsert_response ==
  /\ variant = "part_001"
  /\ pc = "awaitWrite"
  /\ \E req \in inflight, ok \in BOOLEAN :
       /\ req.kind = "write"
       /\ inflight' = inflight \ {req}
       /\ IF ~ok
          THEN /\ Exit(1, <<ErrStore(req.table)>>)
               /\ NoteFailure("write", Len(writesReq))
               /\ UNCHANGED <<tables, lastWritten, formatIn, done>>
          ELSE /\ Commit(req)
               /\ Loaded
               /\ UNCHANGED failedAt
               /\ IF phase = "orders"
                  THEN /\ phase' = "products"
                       /\ pc' = "upsert"
                       /\ formatIn' = all
                       /\ records' = topProducts(all)
                       /\ writesReq' = <<>>
                       /\ UNCHANGED <<page, all, i, exitCode, log, pagesReq,
                                      served>>
                  ELSE Exit(0, <<>>) /\ UNCHANGED formatIn
  /\ UNCHANGED <<variant, env, analytics, source, run, firstRun, nreq>>

Next ==
  \/ main_start
  \/ fetchAllPages_request
  \/ fetchAllPages_response
  \/ main_transform
  \/ upsertChunks_request
  \/ upsertChunks_response
  \/ sync_main_start
  \/ fetchWooCommerceData_request
  \/ fetchWooCommerceData_response
  \/ sync_main_transform
  \/ upsertSupabaseData_request
  \/ upsertSupabaseData_response
  \/ syncData_start
  \/ fetchOrders_request
  \/ fetchOrders_response
  \/ syncData_transform
  \/ syncData_upsert_request
  \/ syncData_upsert_response

Spec == Init /\ [][Next]_vars

(***************************************************************************)
(* Runs against a shop whose records do not change: the shop serves them   *)
(* page by page, and the script can be run a second time after a run that  *)
(* succeeded.                                                              *)
(***************************************************************************)
\* the most records of one entity a fixed shop holds
MaxSource == 3

\* the shops: their orders and their products
Sources ==
  [orders : SeqsUpTo({OrderA, OrderC, OrderD}, MaxSource),
   products : SeqsUpTo(SampleProducts, MaxSource)]

InitFixed ==
  /\ variant \in Variants
  /\ env = EnvVars
  /\ pc = "start"
  /\ phase = "orders"
  /\ page = 1
  /\ all = <<>>
  /\ records = <<>>
  /\ i = 0
  /\ inflight = {}
  /\ tables = [t \in Tables |-> IF t = "sales" THEN {StaleSale} ELSE {}]
  /\ exitCode = -1
  /\ log = <<>>
  /\ nreq = 0
  /\ pagesReq = <<>>
  /\ served = <<>>
  /\ writesReq = <<>>
  /\ lastWritten = [t \in Tables |-> <<>>]
  /\ failedAt = NoFailure
  /\ formatIn = <<>>
  /\ done = {}
  /\ analytics = Undefined
  /\ source \in Sources
  /\ run = 1
  /\ firstRun = tables

\* the scheduler starts the script again after a run in which every request
\* succeeded: a new process, the same environment, shop and store
rerun ==
  /\ pc = "exited"
  /\ exitCode = 0
  /\ failedAt = NoFailure
  /\ run = 1
  /\ run' = 2
  /\ firstRun' = tables
  /\ pc' = "start"
  /\ phase' = "orders"
  /\ page' = 1
  /\ all' = <<>>
  /\ records' = <<>>
  /\ i' = 0
  /\ exitCode' = -1
  /\ log' = <<>>
  /\ nreq' = 0
  /\ pagesReq' = <<>>
  /\ served' = <<>>
  /\ writesReq' = <<>>
  /\ lastWritten' = [t \in Tables |-> <<>>]
  /\ formatIn' = <<>>
  /\ done' = {}
  /\ UNCHANGED <<variant, env, inflight, tables, failedAt, analytics, source>>

NextRerun ==
  \/ Next
  \/ rerun

SpecRerun == InitFixed /\ [][NextRerun]_vars

\* every request is answered at some time and the script takes its next
\* step whenever it can
FairSpec == InitFixed /\ [][Next]_vars /\ WF_vars(Next)

(***************************************************************************)
(* src/unnamed/part_000: the analytics script.  It has no configuration,   *)
(* requests one page of orders and derives the figures from it.            *)
(***************************************************************************)
\* the most orders the page of the analytics script holds
MaxOrders == 3
\* the entries getTopCustomers and getTopProducts keep (slice(0, 5))
TOP_N == 2

CustomerA1 ==
  [total |-> "10.50", date_created |-> "2024-01-01T10:00:00",
   billing |-> [email |-> "ann@x.io"],
   line_items |-> <<[name |-> "Soap", quantity |-> 2]>>]

\* a second order of the same customer, on another day
CustomerA2 ==
  [total |-> "6.00", date_created |-> "2024-01-02T09:00:00",
   billing |-> [email |-> "ann@x.io"],
   line_items |-> <<[name |-> "Oil", quantity |-> 1]>>]

\* the same total as CustomerA1
CustomerB ==
  [total |-> "10.50", date_created |-> "2024-01-01T10:00:00",
   billing |-> [email |-> "bob@x.io"],
   line_items |-> <<[name |-> "Oil", quantity |-> 2]>>]

CustomerC ==
  [total |-> "20.00", date_created |-> "2024-01-02T09:00:00",
   billing |-> [email |-> "cy@x.io"],
   line_items |-> <<>>]

\* no email
Guest ==
  [total |-> "3.00", date_created |-> "2024-01-01T10:00:00",
   billing |-> [first_name |-> "Ann"],
   line_items |-> <<[name |-> "Soap", quantity |-> 1]>>]

\* a total that is no number
BadTotal ==
  [total |-> "abc", date_created |-> "2024-01-02T09:00:00",
   billing |-> [email |-> "bob@x.io"],
   line_items |-> <<>>]

\* no billing sub-record
NoBilling ==
  [total |-> "3.00", date_created |-> "2024-01-01T10:00:00",
   line_items |-> <<>>]

AnalyticsOrders ==
  {CustomerA1, CustomerA2, CustomerB, CustomerC, Guest, BadTotal, NoBilling}

\* date.substring(0, 10) of the sample dates
Substring10(s) ==
  CASE s = "2024-01-01T10:00:00" -> "2024-01-01"
    [] s = "2024-01-02T09:00:00" -> "2024-01-02"
    [] OTHER -> s

\* an object with string keys is the sequence of its [key, value] entries
\* in insertion order, which is the order of Object.entries
KeyIndex(entries, key) == {k \in 1..Len(entries) : entries[k][1] = key}

\* obj[key] = (obj[key] || 0) + x
AddEntry(entries, key, x) ==
  IF KeyIndex(entries, key) = {}
  THEN Append(entries, <<key, NumAdd(Num(0), x)>>)
  ELSE LET j == CHOOSE k \in KeyIndex(entries, key) : TRUE
       IN  [entries EXCEPT ![j] = <<key, NumAdd(OrZero(entries[j][2]), x)>>]

RECURSIVE Accumulate(_)
\* the object after a forEach over items, a sequence of <<key, amount>>
Accumulate(items) ==
  IF items = <<>> THEN <<>>
  ELSE LET last == items[Len(items)]
       IN  AddEntry(Accumulate(SubSeq(items, 1, Len(items) - 1)), last[1], last[2])

\* the place of entry e under (a, b) => b[1] - a[1] with a stable sort
InsertEntryDesc(sorted, e) ==
  LET n == Cardinality({k \in 1..Len(sorted) : sorted[k][2].val >= e[2].val})
  IN  SubSeq(sorted, 1, n) \o <<e>> \o SubSeq(sorted, n + 1, Len(sorted))

RECURSIVE SortEntriesDesc(_)
SortEntriesDesc(s) ==
  IF s = <<>> THEN <<>>
  ELSE InsertEntryDesc(SortEntriesDesc(SubSeq(s, 1, Len(s) - 1)), s[Len(s)])

Orderings(s) ==
  {[k \in 1..Len(s) |-> s[p[k]]] :
     p \in {q \in [1..Len(s) -> 1..Len(s)] : \A a, b \in 1..Len(s) : q[a] = q[b] => a = b}}

\* entries.sort((a, b) => b[1] - a[1]): with a NaN among the values the
\* comparator is not consistent and the order is implementation-defined
SortResults(entries) ==
  IF \E k \in 1..Len(entries) : entries[k][2].nan
  THEN Orderings(entries)
  ELSE {SortEntriesDesc(entries)}

\* order.billing.email throws when the order has no billing
getTopCustomersThrows(orders) == \E k \in 1..Len(orders) : ~Has(orders[k], "billing")

\* the results getTopCustomers can return: entries <<email, total>>
getTopCustomers(orders) ==
  LET items == [k \in 1..Len(orders) |->
                  <<OrDefault(orders[k].billing, "email", "inconnu"),
                    ParseFloat(orders[k].total)>>]
  IN  {Slice(sorted, 0, TOP_N) : sorted \in SortResults(Accumulate(items))}

RECURSIVE Quantities(_)
\* <<item.name, item.quantity>> in the order of the two forEach loops
Quantities(orders) ==
  IF orders = <<>> THEN <<>>
  ELSE [k \in 1..Len(Head(orders).line_items) |->
          <<Head(orders).line_items[k].name, Num(Head(orders).line_items[k].quantity)>>]
       \o Quantities(Tail(orders))

\* entries <<name, qty>>
getTopProducts(orders) ==
  Slice(SortEntriesDesc(Accumulate(Quantities(orders))), 0, TOP_N)

\* entries <<date, total>>
getSalesByDate(orders) ==
  Accumulate([k \in 1..Len(orders) |->
                <<Substring10(orders[k].date_created), ParseFloat(orders[k].total)>>])

RECURSIVE Revenue(_)
\* orders.reduce((sum, order) => sum + parseFloat(order.total), 0)
Revenue(orders) ==
  IF orders = <<>> THEN Num(0)
  ELSE NumAdd(Revenue(SubSeq(orders, 1, Len(orders) - 1)),
              ParseFloat(orders[Len(orders)].total))

\* a / n on numbers: 0 / 0 and NaN / n are NaN (amounts are in hundredths,
\* the quotient is cut to a whole hundredth)
Divide(a, n) == IF a.nan \/ n = 0 THEN NaN ELSE Num(a.val \div n)

\* the analytics object of fetchOrders
Analytics(orders, topCustomers) ==
  [kind |-> "analytics",
   totalOrders |-> Len(orders),
   totalRevenue |-> Revenue(orders),
   averageOrderValue |-> Divide(Revenue(orders), Len(orders)),
   topCustomers |-> topCustomers,
   topProducts |-> getTopProducts(orders),
   salesByDate |-> getSalesByDate(orders)]

\* what the one request can be answered with
AnalyticsResponses ==
  {[ok |-> TRUE, status |-> 200, body |-> "array", data |-> d] :
     d \in SeqsUpTo(AnalyticsOrders, MaxOrders)}
  \cup {[ok |-> TRUE, status |-> 200, body |-> b, data |-> <<>>] : b \in {"object", "invalid"}}
  \cup {[ok |-> FALSE, status |-> 500, body |-> "object", data |-> <<>>]}

InitAnalytics ==
  /\ variant = "part_000"
  /\ env = {}
  /\ pc = "start"
  /\ phase = "orders"
  /\ page = 1
  /\ all = <<>>
  /\ records = <<>>
  /\ i = 0
  /\ inflight = {}
  /\ tables = [t \in Tables |-> {}]
  /\ exitCode = -1
  /\ log = <<>>
  /\ nreq = 0
  /\ pagesReq = <<>>
  /\ served = <<>>
  /\ writesReq = <<>>
  /\ lastWritten = [t \in Tables |-> <<>>]
  /\ failedAt = NoFailure
  /\ formatIn = <<>>
  /\ done = {}
  /\ analytics = Undefined
  /\ source = Unfixed
  /\ run = 1
  /\ firstRun = tables

\* the catch of fetchOrders: console.error; the function returns undefined
\* and the process ends by itself
analytics_catch(err) ==
  /\ pc' = "exited"
  /\ exitCode' = 0
  /\ log' = Append(log, err)
  /\ UNCHANGED <<all, analytics>>

\* fetchOrders up to the request
analytics_fetchOrders_request ==
  /\ variant = "part_000"
  /\ pc = "start"
  /\ inflight' = {[kind |-> "page", entity |-> "orders", page |-> 1, n |-> nreq + 1]}
  /\ nreq' = nreq + 1
  /\ pagesReq' = Append(pagesReq, 1)
  /\ pc' = AwaitPage
  /\ UNCHANGED <<variant, env, phase, page, all, records, i, tables, exitCode,
                 log, served, writesReq, lastWritten, failedAt, formatIn, done,
                 analytics, source, run, firstRun>>

\* fetchOrders from the response to the return
analytics_fetchOrders_response ==
  /\ variant = "part_000"
  /\ pc = "awaitPage"
  /\ \E req \in inflight, resp \in AnalyticsResponses :
       /\ inflight' = inflight \ {req}
       /\ IF ~resp.ok
          THEN /\ analytics_catch(ErrPage("orders", 1, resp.status))
               /\ NoteFailure("page", 1)
          ELSE IF resp.body = "invalid"
          THEN analytics_catch(ErrJson) /\ UNCHANGED failedAt
          ELSE IF resp.body = "object"
          \* orders.reduce is not a function
          THEN analytics_catch(ErrType("body")) /\ UNCHANGED failedAt
          ELSE IF getTopCustomersThrows(resp.data)
          THEN /\ pc' = "exited"
               /\ exitCode' = 0
               /\ log' = Append(log, ErrType("format"))
               /\ all' = resp.data
               /\ UNCHANGED <<analytics, failedAt>>
          ELSE /\ \E top \in getTopCustomers(resp.data) :
                    analytics' = Analytics(resp.data, top)
               /\ all' = resp.data
               /\ pc' = "exited"
               /\ exitCode' = 0
               /\ UNCHANGED <<log, failedAt>>
  /\ UNCHANGED <<variant, env, phase, page, records, i, tables, nreq, pagesReq,
                 served, writesReq, lastWritten, formatIn, done, source, run,
                 firstRun>>

NextAnalytics ==
  \/ analytics_fetchOrders_request
  \/ analytics_fetchOrders_response

SpecAnalytics == InitAnalytics /\ [][NextAnalytics]_vars

(***************************************************************************)
(* Properties.                                                             *)
(***************************************************************************)
Range(s) == {s[k] : k \in 1..Len(s)}

\* main's catch has ended the process with code 1 and error err in the log
Aborted(err) ==
  /\ pc = "exited"
  /\ exitCode = 1
  /\ err \in Range(log)
  /\ inflight = {}

\* every response of the current extraction was a successful JSON array
AllArrays == \A k \in 1..Len(served) : served[k].ok /\ served[k].body = "array"

\* an extractor without record limit has returned
UnlimitedReturned ==
  /\ pc = "transform"
  /\ variant = "part_002" \/ (variant = "sync_js" /\ phase = "products")

\* C1: when fetchAllPages, or fetchWooCommerceData without record limit,
\* returns from a source that answered every page with an array, then the
\* last page it received, and only the last, was empty, it requested the
\* pages 1, 2, ..., k in that order, once each, k being the empty page, and
\* it returns the records of the pages before in the order of the source.
C1_PaginationExact ==
  (UnlimitedReturned /\ AllArrays) =>
    /\ Len(served) >= 1
    /\ \A k \in 1..Len(served) : (Len(served[k].data) = 0) <=> (k = Len(served))
    /\ pagesReq = [k \in 1..Len(served) |-> k]
    /\ all = Concat(SubSeq(served, 1, Len(served) - 1))

\* pages of 2, 2, 1 and 0 records: 5 records from 4 requests
C1_Witness ==
  /\ UnlimitedReturned
  /\ variant = "part_002"
  /\ AllArrays
  /\ [k \in 1..Len(served) |-> Len(served[k].data)] = <<2, 2, 1, 0>>
  /\ Len(all) = 5
  /\ nreq = 4

\* the last of the records s[1..n] that has the conflict key of r
LastWithKey(t, s, n, r) ==
  s[CHOOSE k \in 1..n : /\ Key(t, s[k]) = Key(t, r)
                        /\ \A m \in 1..n : Key(t, s[m]) = Key(t, r) => m <= k]

\* the rows the store held before the run
InitialRows(t) == IF t = "sales" THEN {StaleSale} ELSE {}

\* C2: when the write of chunk j of upsertChunks is answered with a failure,
\* the run ends with code 1 and the error in the log, every chunk up to j
\* was requested once and no chunk after j, and the store holds the records
\* of the chunks before j (for each conflict key the last of them) and no
\* record of chunk j or of a later chunk.
C2_ChunkFailureStops ==
  (variant = "part_002" /\ failedAt.kind = "write") =>
    LET t == TableOf(failedAt.phase)
        j == failedAt.n
        n == (j - 1) * CHUNK_SIZE
    IN  /\ Aborted(ErrStore(t))
        /\ writesReq = [k \in 1..j |-> (k - 1) * CHUNK_SIZE]
        /\ \A k \in 1..n : LastWithKey(t, records, n, records[k]) \in tables[t]
        /\ tables[t] \subseteq InitialRows(t) \cup {records[k] : k \in 1..n}

\* the second chunk fails while a third one is waiting
C2_Witness ==
  /\ variant = "part_002"
  /\ failedAt.kind = "write"
  /\ failedAt.n = 2
  /\ Len(records) > 2 * CHUNK_SIZE
  /\ \E r \in tables[TableOf(failedAt.phase)] : r = records[CHUNK_SIZE]

ConfigComplete == EnvVars \subseteq env

\* the run ended on a body or a record the script could not read; such a
\* run counts as a failed extraction
DataError ==
  \E k \in 1..Len(log) : log[k].kind \in {"SyntaxError", "TypeError"}

\* C4: a run ends with code 0 exactly when the configuration was complete
\* and every page request and every write request succeeded, and a run
\* that ends with another code has written the error to the log.
C4_ExitContract ==
  pc = "exited" =>
    /\ exitCode = 0 => (ConfigComplete /\ failedAt = NoFailure)
    /\ (ConfigComplete /\ failedAt = NoFailure /\ ~DataError) => exitCode = 0
    /\ exitCode # 0 => log # <<>>

\* C5: when page p is answered with a failure status, the run is aborted
\* with an error that names p and the status, p is the last page requested
\* and was requested once, and no write of that entity type is requested.
C5_PageFailureAborts ==
  failedAt.kind = "page" =>
    /\ Aborted(ErrPage(failedAt.phase, failedAt.n, 500))
    /\ pagesReq = [k \in 1..failedAt.n |-> k]
    /\ writesReq = <<>>

\* C6: with a required environment variable missing or empty the run issues
\* no request and ends with a failure code.
C6_NoRequestWithoutConfig ==
  ~ConfigComplete =>
    /\ nreq = 0
    /\ pc = "exited" => exitCode = 1

\* C7: at most one request is in flight; page n is requested after the n-1
\* pages before it were answered, a chunk after the chunks before it were
\* answered; a write to sales is requested after the order extraction
\* returned, a product page after the load of the sales returned, a write to
\* products after the product extraction returned.
C7_Sequential ==
  /\ Cardinality(inflight) <= 1
  /\ \A req \in inflight :
       /\ req.n = nreq
       /\ req.kind = "page" =>
            /\ req.page = Len(pagesReq)
            /\ Len(served) = req.page - 1
       /\ req.kind = "write" =>
            /\ writesReq[Len(writesReq)] = i
            /\ variant = "part_002" => i = (Len(writesReq) - 1) * CHUNK_SIZE
       /\ (req.kind = "write" /\ req.table = "sales") =>
            <<"extracted", "orders">> \in done
       /\ (req.kind = "page" /\ req.entity = "products") =>
            {<<"extracted", "orders">>, <<"loaded", "sales">>} \subseteq done
       /\ (req.kind = "write" /\ req.table = "products") =>
            /\ <<"loaded", "sales">> \in done
            /\ variant # "part_001" => <<"extracted", "products">> \in done

\* the second chunk of products is in flight
C7_Witness ==
  \E req \in inflight :
    /\ req.kind = "write"
    /\ req.table = "products"
    /\ Len(writesReq) = 2
    /\ tables["sales"] # InitialRows("sales")

\* the load of the sales has returned
SalesLoaded == <<"loaded", "sales">> \in done

\* the order sync had succeeded when a product request failed
ProductFailure ==
  /\ failedAt # NoFailure
  /\ failedAt.phase = "products"
  /\ SalesLoaded

\* C8: when a product page request or product write fails after the order
\* sync succeeded, the process ends with code 1 and the error in the log;
\* once the sales are loaded no step changes the sales table, and once the
\* process has ended no request is issued.
C8_ProductFailureFatal ==
  /\ [](ProductFailure =>
          /\ pc = "exited"
          /\ exitCode = 1
          /\ log # <<>>
          /\ inflight = {})
  /\ [][SalesLoaded => tables'["sales"] = tables["sales"]]_vars
  /\ [][pc = "exited" => nreq' = nreq]_vars

\* a product page failed after sales of this run were committed
C8_Witness ==
  /\ ProductFailure
  /\ failedAt.kind = "page"
  /\ \E r \in tables["sales"] : r \notin InitialRows("sales")

Allowed(o) == Has(o, "status") /\ o.status \in allowedStatuses

\* C9: in sync.js only orders with an allowed status are handed to
\* formatOrder; the write to sales carries the formatted record of every
\* extracted order with an allowed status and nothing else; no row with
\* another status is added to the sales table.
C9_StatusAllowList ==
  variant = "sync_js" =>
    /\ phase = "orders" => \A k \in 1..Len(formatIn) : Allowed(formatIn[k])
    /\ \A r \in tables["sales"] \ InitialRows("sales") : r.status \in allowedStatuses
    /\ \A req \in inflight : (req.kind = "write" /\ req.table = "sales") =>
         /\ \A k \in 1..Len(req.payload) : req.payload[k].status \in allowedStatuses
         /\ Len(req.payload) = Cardinality({k \in 1..Len(all) : Allowed(all[k])})
         /\ \A k \in 1..Len(all) :
              Allowed(all[k]) => formatOrder(all[k]) \in Range(req.payload)

\* a cancelled order was extracted and is not in the write to sales
C9_Witness ==
  /\ variant = "sync_js"
  /\ OrderB \in Range(all)
  /\ \E req \in inflight :
       /\ req.kind = "write"
       /\ req.table = "sales"
       /\ Len(req.payload) = 2
       /\ Len(all) = 3

\* C10: formatOrderForSupabase, formatProductForSupabase, formatOrder and
\* formatProduct never end the run with an error, whatever optional fields
\* a record lacks.
C10_FormattingNeverThrows ==
  variant \in {"part_002", "sync_js"} => ErrType("format") \notin Range(log)

\* a load of sales is under way: records[k] is the formatted formatIn[k]
SalesFormatted ==
  /\ phase = "orders"
  /\ pc \in {"upsert", "awaitWrite"}
  /\ Len(records) = Len(formatIn)

\* C11: the total of every formatted order is a number, never NaN: the
\* value of the source total when that is a decimal string, and 0 when the
\* source total is absent or not a number.
C11_TotalIsNumber ==
  SalesFormatted =>
    \A k \in 1..Len(records) :
      /\ ~records[k].total.nan
      /\ records[k].total =
           IF Has(formatIn[k], "total") /\ ~ParseFloat(formatIn[k].total).nan
           THEN ParseFloat(formatIn[k].total) ELSE Num(0)

\* the analytics script has received an array of orders and has ended
Analysed ==
  /\ variant = "part_000"
  /\ pc = "exited"
  /\ \A k \in 1..Len(log) : log[k] = ErrType("format")

\* the email key of an order: the sentinel when it has no email
EmailKey(o) ==
  IF Has(o, "billing") THEN OrDefault(o.billing, "email", "inconnu") ELSE "inconnu"

\* the total of an order in hundredths: 0 when it is no decimal string
Hundredths(o) ==
  IF Has(o, "total") /\ ~ParseFloat(o.total).nan THEN ParseFloat(o.total).val ELSE 0

RECURSIVE KeyTotal(_, _)
\* the summed total of the orders with email key e
KeyTotal(orders, e) ==
  IF orders = <<>> THEN 0
  ELSE (IF EmailKey(Head(orders)) = e THEN Hundredths(Head(orders)) ELSE 0)
       + KeyTotal(Tail(orders), e)

\* the index of the first order with email key e
FirstSeen(orders, e) ==
  CHOOSE k \in 1..Len(orders) :
    /\ EmailKey(orders[k]) = e
    /\ \A m \in 1..(k - 1) : EmailKey(orders[m]) # e

\* C12: getTopCustomers returns min(TOP_N, number of email keys) entries,
\* one per key, each with the summed total of its key, in non-increasing
\* order of the sum; a key left out has no greater sum than a key kept; of
\* two keys with the same sum the one first seen comes first, and is the
\* one kept.
C12_TopCustomers ==
  Analysed =>
    LET keys == {EmailKey(all[k]) : k \in 1..Len(all)}
        Before(a, b) ==
          \/ KeyTotal(all, a) > KeyTotal(all, b)
          \/ KeyTotal(all, a) = KeyTotal(all, b) /\ FirstSeen(all, a) < FirstSeen(all, b)
    IN  /\ analytics # Undefined
        /\ LET top == analytics.topCustomers
               kept == {top[k][1] : k \in 1..Len(top)}
           IN  /\ Len(top) = Min(TOP_N, Cardinality(keys))
               /\ Cardinality(kept) = Len(top)
               /\ kept \subseteq keys
               /\ \A k \in 1..Len(top) : top[k][2] = Num(KeyTotal(all, top[k][1]))
               /\ \A k \in 1..(Len(top) - 1) : Before(top[k][1], top[k + 1][1])
               /\ \A a \in kept, b \in keys \ kept : Before(a, b)

RECURSIVE UnitsSold(_, _)
\* the summed quantity of the line items of product pid
UnitsSold(items, pid) ==
  IF items = <<>> THEN 0
  ELSE (IF String(Head(items).product_id) = pid THEN Head(items).quantity ELSE 0)
       + UnitsSold(Tail(items), pid)

\* C13: the products written by the order-derived derivation are the
\* first TOP_PRODUCTS products of the line items of all extracted orders in
\* descending order of unit count (summed quantity).
C13_TopProductsByUnits ==
  \A req \in inflight :
    (variant = "part_001" /\ req.kind = "write" /\ req.table = "products") =>
      LET items == LineItems(all)
          ids == {String(items[k].product_id) : k \in 1..Len(items)}
          kept == {req.payload[k].product_id : k \in 1..Len(req.payload)}
      IN  /\ Len(req.payload) = Min(TOP_PRODUCTS, Cardinality(ids))
          /\ kept \subseteq ids
          /\ \A k \in 1..(Len(req.payload) - 1) :
               UnitsSold(items, req.payload[k].product_id)
                 >= UnitsSold(items, req.payload[k + 1].product_id)
          /\ \A a \in kept, b \in ids \ kept :
               UnitsSold(items, a) >= UnitsSold(items, b)

\* C14: when the fetched order set is empty the averageOrderValue of the
\* analytics result is a guard value and not NaN, the quotient of 0 by 0.
C14_AverageGuarded ==
  (Analysed /\ analytics # Undefined /\ analytics.totalOrders = 0) =>
    ~analytics.averageOrderValue.nan

\* an extractor has returned its result to main / syncData
Returned == pc = "transform" /\ variant \in Variants

StopsAt(k) ==
  LET count == Len(Concat(SubSeq(served, 1, k)))
  IN  CASE variant = "part_002" ->
             served[k].body # "array" \/ Len(served[k].data) = 0
        [] variant = "sync_js" ->
             \/ Len(served[k].data) = 0
             \/ phase = "orders" /\ count >= ORDER_LIMIT
        [] variant = "part_001" -> Len(served[k].data) # PER_PAGE

C16_NonArrayEndsNormally ==
  variant \in {"part_002", "sync_js"} =>
    /\ ErrType("body") \notin Range(log)
    /\ \A k \in 1..Len(served) :
         (pc \in {"fetch", "awaitPage", "transform"}
            /\ served[k].ok /\ served[k].body = "object") =>
           /\ k = Len(served)
           /\ pc = "transform"
           /\ all = Concat(SubSeq(served, 1, k - 1))

\* ceil(n / CHUNK_SIZE)
Chunks(n) == (n + CHUNK_SIZE - 1) \div CHUNK_SIZE

\* C17: the k-th write request of a load carries the records
\* (k-1)*chunkSize+1 .. min(k*chunkSize, n) of the n records handed to the
\* loader, at least one and at most chunkSize of them, and a load that
\* succeeds has issued ceil(n / chunkSize) requests.  (The sales write of
\* sync.js is bounded by the order limit, which is the chunk size in the
\* source and is scaled separately here; it is measured against that.)
C17_ChunkPartition ==
  variant \in {"part_002", "sync_js"} =>
    /\ \A req \in inflight : req.kind = "write" =>
         LET k == Len(writesReq)
             from == (k - 1) * CHUNK_SIZE
             size == IF variant = "sync_js" /\ req.table = "sales"
                     THEN ORDER_LIMIT ELSE CHUNK_SIZE
         IN  /\ Len(req.payload) >= 1
             /\ Len(req.payload) <= size
             /\ variant = "part_002" =>
                  req.payload = SubSeq(records, from + 1, Min(from + CHUNK_SIZE, Len(records)))
             /\ variant = "sync_js" => req.payload = records
    /\ (pc = "exited" /\ exitCode = 0 /\ Len(records) > 0) =>
         Len(writesReq) = Chunks(Len(records))

\* fetchWooCommerceData('/orders', 500) is running or has just returned
LimitedExtraction ==
  /\ variant = "sync_js"
  /\ phase = "orders"
  /\ pc \in {"fetch", "awaitPage", "transform"}

\* C20: fetchWooCommerceData with record limit L returns the first
\* min(L, T) records of the source in source order, T being the number of
\* records before the first empty page, and never more than L; no page is
\* requested once the accumulated count has reached L, so with full pages
\* no page beyond ceil(L / per_page) is requested.
C20_RecordLimit ==
  LimitedExtraction =>
    LET seen == Concat(served)
        pagesForLimit == (ORDER_LIMIT + PER_PAGE - 1) \div PER_PAGE
    IN  /\ pc = "transform" =>
             /\ all = SubSeq(seen, 1, Min(ORDER_LIMIT, Len(seen)))
             /\ Len(all) <= ORDER_LIMIT
             /\ Len(seen) < ORDER_LIMIT => Len(served[Len(served)].data) = 0
        /\ pagesReq = [k \in 1..Len(pagesReq) |-> k]
        /\ \A k \in 1..Len(pagesReq) :
             Len(Concat(SubSeq(served, 1, k - 1))) < ORDER_LIMIT
        /\ (\A k \in 1..Len(served) : Len(served[k].data) = PER_PAGE) =>
             Len(pagesReq) <= pagesForLimit

\* two full pages hold more than the limit: the result is cut to the limit
C20_Witness ==
  /\ LimitedExtraction
  /\ pc = "transform"
  /\ Len(served) = 2
  /\ Len(Concat(served)) > ORDER_LIMIT
  /\ Len(all) = ORDER_LIMIT

\* C19: with every request answered and a source that runs out of records,
\* every run reaches process exit; in main of part_002 and of sync.js the
\* code is 0 after the last write has succeeded and not 0 after the first
\* failure; no request is issued after the exit.
C19_Terminates ==
  /\ <>(pc = "exited")
  /\ [](pc = "exited" /\ variant \in {"part_002", "sync_js"} =>
          /\ failedAt # NoFailure => exitCode = 1
          /\ exitCode = 0 => <<"loaded", "products">> \in done)
  /\ [][pc = "exited" => pc' = "exited" /\ nreq' = nreq]_vars

\* a run of part_002 has ended with code 0 after both loads
C19_Witness ==
  /\ pc = "exited"
  /\ exitCode = 0
  /\ variant = "part_002"
  /\ tables["products"] # {}
  /\ Len(writesReq) = 2

\* the second run has ended with every request of both runs answered with
\* success
SecondRunDone ==
  /\ run = 2
  /\ pc = "exited"
  /\ exitCode = 0
  /\ failedAt = NoFailure

\* every order of the shop carries a GMT creation timestamp
AllGmt ==
  \A k \in 1..Len(source.orders) : Has(source.orders[k], "date_created_gmt")

\* C18: when the shop's records have not changed, every order carries a GMT
\* creation timestamp and every request of both runs succeeds, the second
\* run leaves the sales and the products table exactly as the first run
\* left them.
C18_Idempotent ==
  (SecondRunDone /\ AllGmt) => tables = firstRun

\* part_002 has synchronised two orders and a product twice
C18_Witness ==
  /\ SecondRunDone
  /\ AllGmt
  /\ variant = "part_002"
  /\ Cardinality({source.orders[k].id : k \in 1..Len(source.orders)}) = 2
  /\ Cardinality(tables["sales"]) = 2
  /\ tables["products"] # {}
  /\ tables = firstRun

====
